---------------------------- MODULE Spec2Model ----------------------------
(***************************************************************************)
(* A model of package compute (github.com/maxim2266/compute): the Pad, a   *)
(* map from keys to values or formulas, and the iterator returned by       *)
(* Pad.Calc / Pad.CalcSeq, which resolves a sequence of requested keys     *)
(* with an explicit evaluation stack (calculator.eval).                    *)
(*                                                                         *)
(* A "pass" is one run of the iterator function returned by CalcSeq.       *)
(***************************************************************************)
EXTENDS Integers, Sequences, FiniteSets, TLC

(***************************************************************************)
(* Bounds of the model.                                                    *)
(***************************************************************************)
NumKeys == 3      \* keys are 1..NumKeys
MaxVal == 2       \* stored values are 1..MaxVal
MaxDeps == 2      \* a formula lists at most MaxDeps dependency keys
MaxReq == 2       \* a request (the key sequence of Calc) has at most MaxReq keys
MaxPasses == 2    \* the iterator returned by Calc is run at most MaxPasses times
MaxOwn == 1       \* a pass with an iterator of its own requests at most MaxOwn keys
MaxDepsInterleaved == 1   \* MaxDeps of the stores over which passes interleave

Keys == 1..NumKeys
Vals == 1..MaxVal
Passes == 1..MaxPasses

\* All sequences over S of length at most n.
SeqUpTo(S, n) == UNION {[1..m -> S] : m \in 0..n}

VARIABLES
    env,      \* Pad.env: the store, a function from the present keys to cells
    Err,      \* Pad.Err: the error slot of the pad
    keys,     \* the key sequence captured by the iterator that Calc returned
    made,     \* TRUE once Calc has returned the iterator
    pc,       \* pc[p]: where pass p is in the iterator function
    idx,      \* idx[p]: how many keys pass p has pulled from the key sequence
    calc,     \* calc[p]: the calculator of pass p (values, stack, active)
    out,      \* out[p]: the pairs pass p has yielded to its consumer, in order
    trace,    \* trace[p]: the keys whose formula function pass p has invoked
    reads,    \* reads[p]: the store lookups pass p has made, in order
    value,    \* value[p]: the named result `value` of calculator.eval in pass p
    brk,      \* brk[p]: the consumer of pass p has stopped pulling
    status,   \* status[p]: Pad.Err as the caller reads it when pass p has ended
    pulls,    \* pulls[p]: how many times the consumer of pass p has asked for a pair
    own,      \* own[p]: the key sequence of pass p when it runs an iterator of its own
    added     \* the keys inserted into the store while a pass was running

vars == <<env, Err, keys, made, pc, idx, calc, value, out, trace, reads, brk, status,
          pulls, own, added>>

(***************************************************************************)
(* Cells, errors and the user's function.                                  *)
(***************************************************************************)
\* env[key] holds a value of type V ...
ValCell(v) == [type |-> "val", val |-> v, args |-> <<>>]
\* ... or a *formula[K, V]; every formula of the model shares one function, fn.
FormCell(args) == [type |-> "form", val |-> 0, args |-> args]
\* the nil interface that a map read returns for an absent key
NilCell == [type |-> "nil", val |-> 0, args |-> <<>>]

\* Seeded fault: a map read that gives the zero value for an absent key.
lookupZero(e, k) == IF k \in DOMAIN e THEN e[k] ELSE ValCell(0)

\* p.env[key]: a map read, nil when the key is absent
lookup(e, k) == IF k \in DOMAIN e THEN e[k] ELSE NilCell

\* error values: nil, fmt.Errorf(`missing key "%v"`, k), fmt.Errorf(`cycle detected on key "%v"`, k)
NoErr == [kind |-> "nil", key |-> 0]
MissingKey(k) == [kind |-> "missing", key |-> k]
Cycle(k) == [kind |-> "cycle", key |-> k]
\* status[p] before the caller has read Pad.Err
Unread == [kind |-> "unread", key |-> 0]

\* The function stored in a formula, func(...V) V: a user's input.  The model
\* takes one that depends on the number and on the order of its arguments:
\* fn() = 1, fn(a) = 10 + a, fn(a, b) = 100 + 10a + b, ...
RECURSIVE fn(_)
fn(args) ==
    IF args = <<>> THEN 1
    ELSE 10 * fn(SubSeq(args, 1, Len(args) - 1)) + args[Len(args)]

(***************************************************************************)
(* The calculator.                                                         *)
(***************************************************************************)
\* calculator{values: make(map[K]V), active: make(map[K]struct{})}, stack nil
EmptyValues == <<>>
NewCalc == [values |-> EmptyValues, stack |-> <<>>, active |-> {}]

\* computation{key: key, form: form}: a frame with no argument collected yet
Frame(key, form) == [key |-> key, form |-> form, args |-> <<>>]

\* Seeded fault: push never looks at the active set.
pushAlways(c, key, form) ==
    [err |-> NoErr,
     calc |-> [c EXCEPT !.stack = Append(@, Frame(key, form)),
                        !.active = @ \cup {key}]]

\* Seeded fault: push blames the key of the top frame for the cycle.
pushNamesTop(c, key, form) ==
    IF key \in c.active
    THEN [err |-> Cycle(IF c.stack = <<>> THEN key ELSE c.stack[Len(c.stack)].key),
          calc |-> c]
    ELSE [err |-> NoErr,
          calc |-> [c EXCEPT !.stack = Append(@, Frame(key, form)),
                             !.active = @ \cup {key}]]

\* calculator.push: refuses a key that is active, else appends a frame
push(c, key, form) ==
    IF key \in c.active
    THEN [err |-> Cycle(key), calc |-> c]
    ELSE [err |-> NoErr,
          calc |-> [c EXCEPT !.stack = Append(@, Frame(key, form)),
                             !.active = @ \cup {key}]]

\* Seeded fault: pop leaves the key of the dropped frame in the active set.
popKeepsActive(c) ==
    LET i == Len(c.stack) IN
    IF i > 0
    THEN [empty |-> i - 1 = 0, calc |-> [c EXCEPT !.stack = SubSeq(@, 1, i - 1)]]
    ELSE [empty |-> TRUE, calc |-> c]

\* calculator.pop: drops the top frame and its key from the active set;
\* reports whether the stack was left empty
pop(c) ==
    LET i == Len(c.stack) IN
    IF i > 0
    THEN [empty |-> i - 1 = 0,
          calc |-> [c EXCEPT !.stack = SubSeq(@, 1, i - 1),
                             !.active = @ \ {c.stack[i].key}]]
    ELSE [empty |-> TRUE, calc |-> c]

\* Seeded fault: the memo is never consulted.
NoValue(c, k) == FALSE

\* val, ok := calc.values[k]
HasValue(c, k) == k \in DOMAIN c.values

\* Seeded fault: the result of a function is not recorded.
SkipValue(c, k, v) == c

\* calc.values[k] = v
SetValue(c, k, v) ==
    [c EXCEPT !.values = [x \in DOMAIN @ \cup {k} |-> IF x = k THEN v ELSE @[x]]]


\* c := &calc.stack[len(calc.stack)-1]
Top(c) == c.stack[Len(c.stack)]

\* Seeded fault: the argument is put in front of those collected so far.
PrependArg(c, v) == [c EXCEPT !.stack[Len(c.stack)].args = <<v>> \o @]

\* c.args = append(c.args, v), on the top frame
AppendArg(c, v) == [c EXCEPT !.stack[Len(c.stack)].args = Append(@, v)]

(***************************************************************************)
(* The pad before any iterator exists: NewPad, SetVal, SetFunc, Delete.    *)
(***************************************************************************)
\* no iterator of its own: the pass runs the iterator that Calc returned
NoOwn == [set |-> FALSE, keys |-> <<>>]

\* NewPad: an empty env and a nil Err; no iterator, no pass
Init ==
    /\ env = <<>>
    /\ Err = NoErr
    /\ keys = <<>>
    /\ made = FALSE
    /\ pc = [p \in Passes |-> "new"]
    /\ idx = [p \in Passes |-> 0]
    /\ calc = [p \in Passes |-> NewCalc]
    /\ value = [p \in Passes |-> 0]
    /\ out = [p \in Passes |-> <<>>]
    /\ trace = [p \in Passes |-> <<>>]
    /\ reads = [p \in Passes |-> <<>>]
    /\ brk = [p \in Passes |-> FALSE]
    /\ status = [p \in Passes |-> Unread]
    /\ pulls = [p \in Passes |-> 0]
    /\ own = [p \in Passes |-> NoOwn]
    /\ added = {}

passVars == <<pc, idx, calc, value, out, trace, reads, brk, status, pulls>>

\* p.env[key] = cell
Put(e, key, cell) == [x \in DOMAIN e \cup {key} |-> IF x = key THEN cell ELSE e[x]]

\* delete(p.env, key)
Remove(e, key) == [x \in DOMAIN e \ {key} |-> e[x]]

\* Pad.SetVal
SetVal(key, val) ==
    /\ ~made
    /\ env' = Put(env, key, ValCell(val))
    /\ UNCHANGED <<own, added, Err, keys, made, passVars>>

\* Pad.SetFunc
SetFunc(key, args) ==
    /\ ~made
    /\ env' = Put(env, key, FormCell(args))
    /\ UNCHANGED <<own, added, Err, keys, made, passVars>>

\* Pad.Delete
Delete(key) ==
    /\ ~made
    /\ key \in DOMAIN env
    /\ env' = Remove(env, key)
    /\ UNCHANGED <<own, added, Err, keys, made, passVars>>

\* Pad.Calc / Pad.CalcSeq: returns the iterator function; nothing runs yet
Calc(req) ==
    /\ ~made
    /\ keys' = req
    /\ made' = TRUE
    /\ UNCHANGED <<own, added, env, Err, passVars>>

(***************************************************************************)
(* One pass: a run of the iterator function returned by CalcSeq.           *)
(***************************************************************************)
\* Seeded fault: the error of the previous pass is not cleared.
KeepErr(e) == e

\* p.Err = nil, the first statement of the iterator function
ClearErr(e) == NoErr

\* Seeded fault: the memo outlives the pass, the next run starts with it.
SharedCalc(p) ==
    IF p > 1 THEN [NewCalc EXCEPT !.values = calc[p - 1].values] ELSE NewCalc

\* calc := calculator[K, V]{...}: a calculator local to this run
LocalCalc(p) == NewCalc

\* Seeded fault: the loop goes on to the next key after a failure.
FailContinue == "range"

\* where the iterator function goes after a failure: it returns
FailPc == "done"

\* Seeded fault: the result of yield is ignored.
BreakContinue == "range"

\* where the iterator function goes when yield returns false: it returns
BreakPc == "done"

\* Seeded fault: the pass goes on to the next key without waiting for the
\* consumer.
RunAhead == "range"

\* where the iterator function is after it has produced a pair: inside the
\* call of yield, until the consumer's loop body comes back
YieldPc == "yield"

\* Seeded fault: a key that was yielded before is not yielded again.
YieldOnce(o, key, val) ==
    IF \E i \in DOMAIN o : o[i][1] = key THEN o ELSE Append(o, <<key, val>>)

\* yield(key, val): the consumer receives the pair
Yield(o, key, val) == Append(o, <<key, val>>)

\* Seeded fault: the result of a formula replaces the formula in the store.
EnvWithResult(e, k, v) == Put(e, k, ValCell(v))

\* what a pass leaves in the store when a formula's function has returned v
\* for key k: nothing, the result goes to calc.values only
EnvAfterCall(e, k, v) == e

\* The next state of pass p: the fields named in r replace the current ones.
\* r.err is the value assigned to p.Err; r.end says the iterator function
\* returns, after which the caller reads p.Err.
Step(p, r) ==
    /\ pc' = [pc EXCEPT ![p] = r.pc]
    /\ idx' = [idx EXCEPT ![p] = r.idx]
    /\ calc' = [calc EXCEPT ![p] = r.calc]
    /\ out' = [out EXCEPT ![p] = r.out]
    /\ reads' = [reads EXCEPT ![p] = r.reads]
    /\ Err' = r.err
    /\ status' = [status EXCEPT ![p] = IF r.pc = "done" THEN r.err ELSE @]

\* the pass as it is, to be changed with EXCEPT
Cur(p) == [pc |-> pc[p], idx |-> idx[p], calc |-> calc[p], out |-> out[p],
           reads |-> reads[p], err |-> Err]

\* a store lookup, recorded
Read(r, top, k) == Append(r, [req |-> top, key |-> k])

\* the key sequence that pass p ranges over: the keys captured by its iterator
Request(p) == IF own[p].set THEN own[p].keys ELSE keys

\* Seeded fault: the pass reads a copy of the store made before any insertion.
StoreAtStart(p) == [k \in DOMAIN env \ added |-> env[k]]

\* p.env as pass p reads it: the map of the pad itself, never a copy
Store(p) == env

\* Seeded fault: one calculator for the whole pad, reset when a pass starts.
CalcOfPad(p) == [q \in Passes |-> LocalCalc(p)]

\* calc is a local variable of the iterator function: the start of pass p
\* makes the calculator of pass p and touches no other
CalcAtStart(p) == [calc EXCEPT ![p] = LocalCalc(p)]

\* The iterator function starts: lines 267-275.  The consumer's range
\* statement calls it, which is its request for the first pair.
Start(p) ==
    /\ made
    /\ pc[p] = "new"
    /\ Err' = ClearErr(Err)
    /\ calc' = CalcAtStart(p)
    /\ pc' = [pc EXCEPT ![p] = "range"]
    /\ pulls' = [pulls EXCEPT ![p] = @ + 1]
    /\ UNCHANGED <<own, added, env, keys, made, idx, value, out, trace, reads, brk, status>>

\* for key := range keys { switch x := p.env[key].(type) ... }: one
\* iteration up to its yield, its return or its call of calc.eval
\* (whose first statement is calc.push).
RangeResult(p) ==
    LET c == Cur(p) IN
    IF idx[p] = Len(Request(p))
    THEN [c EXCEPT !.pc = "done"]
    ELSE
        LET key == Request(p)[idx[p] + 1]
            x == lookup(Store(p), key)
            d == [c EXCEPT !.idx = @ + 1, !.reads = Read(@, TRUE, key)]
        IN
        CASE x.type = "nil" ->
                [d EXCEPT !.err = MissingKey(key), !.pc = FailPc]
          [] x.type = "val" ->
                [d EXCEPT !.out = Yield(@, key, x.val), !.pc = YieldPc]
          [] x.type = "form" ->
                IF HasValue(calc[p], key)
                THEN [d EXCEPT !.out = Yield(@, key, calc[p].values[key]),
                               !.pc = YieldPc]
                ELSE LET r == push(calc[p], key, x.args) IN
                     IF r.err # NoErr
                     THEN [d EXCEPT !.err = r.err, !.pc = FailPc]
                     ELSE [d EXCEPT !.calc = r.calc, !.pc = "eval"]

Range(p) ==
    /\ pc[p] = "range"
    /\ Step(p, RangeResult(p))
    /\ UNCHANGED <<pulls, own, added, env, keys, made, value, trace, brk>>

\* Seeded fault: a plain value read as a dependency is recorded in the memo.
ArgMemoised(c, k, v) == AppendArg(SetValue(c, k, v), v)

\* case V: c.args = append(c.args, v): the value cell of dependency k gives
\* the next argument and nothing else is recorded
ArgOfValue(c, k, v) == AppendArg(c, v)

\* Seeded fault: a resumed frame walks its dependencies from the first again.
DepFromStart(f) == f.form[1]

\* Seeded fault: the dependencies are walked from the last to the first.
LastDepFirst(f) == f.form[Len(f.form) - Len(f.args)]

\* c.form.args[len(c.args):]: the first dependency of frame f that has no
\* argument yet
NextDep(f) == f.form[Len(f.args) + 1]

\* calculator.eval, one iteration of `for _, k := range c.form.args[len(c.args):]`
\* (lines 354-380): the next dependency of the top frame is looked up
EvalArgResult(p) ==
    LET c == Cur(p)
        f == Top(calc[p])
        k == NextDep(f)
        x == lookup(Store(p), k)
        d == [c EXCEPT !.reads = Read(@, FALSE, k)]
    IN
    CASE x.type = "nil" ->
            [d EXCEPT !.err = MissingKey(k), !.pc = FailPc]
      [] x.type = "val" ->
            [d EXCEPT !.calc = ArgOfValue(@, k, x.val)]
      [] x.type = "form" ->
            IF HasValue(calc[p], k)
            THEN [d EXCEPT !.calc = AppendArg(@, calc[p].values[k])]
            ELSE LET r == push(calc[p], k, x.args) IN
                 IF r.err # NoErr
                 THEN [d EXCEPT !.err = r.err, !.pc = FailPc]
                 ELSE [d EXCEPT !.calc = r.calc]

EvalArg(p) ==
    /\ pc[p] = "eval"
    /\ Len(Top(calc[p]).args) < Len(Top(calc[p]).form)
    /\ Step(p, EvalArgResult(p))
    /\ UNCHANGED <<pulls, own, added, env, keys, made, value, trace, brk>>

\* calculator.eval, lines 383-389, and on its return Pad.CalcSeq, lines
\* 296-304: all arguments of the top frame are collected, so its function
\* is called, the result is recorded in calc.values and the frame is popped;
\* when that leaves the stack empty eval returns (value, nil), which is
\* assigned to (val, p.Err), and the pair is yielded
EvalCallResult(p) ==
    LET c == Cur(p)
        f == Top(calc[p])
        v == fn(f.args)
        r == pop(SetValue(calc[p], f.key, v))
    IN
    IF r.empty
    THEN [c EXCEPT !.calc = r.calc, !.err = NoErr,
                   !.out = Yield(@, Request(p)[idx[p]], v), !.pc = YieldPc]
    ELSE [c EXCEPT !.calc = r.calc]

EvalCall(p) ==
    LET f == Top(calc[p])
        v == fn(f.args)
    IN
    /\ pc[p] = "eval"
    /\ Len(f.args) >= Len(f.form)
    /\ value' = [value EXCEPT ![p] = v]
    /\ trace' = [trace EXCEPT ![p] = Append(@, f.key)]
    /\ env' = EnvAfterCall(env, f.key, v)
    /\ Step(p, EvalCallResult(p))
    /\ UNCHANGED <<pulls, own, added, keys, made, brk>>

\* the consumer's loop body ends and asks for the next pair: yield returns true
Resume(p) ==
    /\ pc[p] = "yield"
    /\ pc' = [pc EXCEPT ![p] = "range"]
    /\ pulls' = [pulls EXCEPT ![p] = @ + 1]
    /\ UNCHANGED <<own, added, env, Err, keys, made, idx, calc, value, out, trace, reads, brk, status>>

\* the consumer leaves its loop: yield returns false and the iterator
\* function returns (lines 286-288, 302-304)
Break(p) ==
    /\ pc[p] = "yield"
    /\ brk' = [brk EXCEPT ![p] = TRUE]
    /\ pc' = [pc EXCEPT ![p] = BreakPc]
    /\ status' = [status EXCEPT ![p] = IF BreakPc = "done" THEN Err ELSE @]
    /\ UNCHANGED <<pulls, own, added, env, Err, keys, made, idx, calc, value, out, trace, reads>>

\* the passes run one after the other: a run of the iterator starts when
\* the runs before it have returned
Sequential(p) == \A q \in 1..(p - 1) : pc[q] = "done"

SeqStart(p) == Sequential(p) /\ Start(p)

Next ==
    \/ \E k \in Keys, v \in Vals : SetVal(k, v)
    \/ \E k \in Keys, a \in SeqUpTo(Keys, MaxDeps) : SetFunc(k, a)
    \/ \E k \in Keys : Delete(k)
    \/ \E r \in SeqUpTo(Keys, MaxReq) : Calc(r)
    \/ \E p \in Passes : SeqStart(p)
    \/ \E p \in Passes : Range(p)
    \/ \E p \in Passes : EvalArg(p)
    \/ \E p \in Passes : EvalCall(p)
    \/ \E p \in Passes : Resume(p)
    \/ \E p \in Passes : Break(p)

Spec == Init /\ [][Next]_vars

(***************************************************************************)
(* The reference meaning of a store, by recursion on the formulas, used to *)
(* state the properties below.  It reads env and fn only, nothing of the   *)
(* calculator.                                                             *)
(***************************************************************************)
Present(k) == k \in DOMAIN env
IsValue(k) == Present(k) /\ env[k].type = "val"
IsFormula(k) == Present(k) /\ env[k].type = "form"
DepsOf(k) == IF IsFormula(k) THEN {env[k].args[i] : i \in DOMAIN env[k].args} ELSE {}

\* RefEval(k, path): the value of k, or the first failure met when the
\* dependencies are walked depth-first, left to right; path holds the
\* formula keys being evaluated.
RECURSIVE RefEval(_, _)
RECURSIVE RefArgs(_, _, _, _)
RefEval(k, path) ==
    IF ~Present(k) THEN [err |-> MissingKey(k), val |-> 0]
    ELSE IF IsValue(k) THEN [err |-> NoErr, val |-> env[k].val]
    ELSE IF k \in path THEN [err |-> Cycle(k), val |-> 0]
    ELSE LET a == RefArgs(env[k].args, 1, path \cup {k}, <<>>) IN
         IF a.err # NoErr THEN [err |-> a.err, val |-> 0]
         ELSE [err |-> NoErr, val |-> fn(a.vals)]

RefArgs(args, i, path, acc) ==
    IF i > Len(args) THEN [err |-> NoErr, vals |-> acc]
    ELSE LET r == RefEval(args[i], path) IN
         IF r.err # NoErr THEN [err |-> r.err, vals |-> acc]
         ELSE RefArgs(args, i + 1, path, Append(acc, r.val))

RefVal(k) == RefEval(k, {}).val
RefErr(k) == RefEval(k, {}).err

\* RefPass(req, i, acc): the pairs and the final error of a pass over req that
\* is consumed to its end, from position i on
RECURSIVE RefPass(_, _, _)
RefPass(req, i, acc) ==
    IF i > Len(req) THEN [out |-> acc, err |-> NoErr, at |-> 0]
    ELSE IF RefErr(req[i]) # NoErr THEN [out |-> acc, err |-> RefErr(req[i]), at |-> i]
    ELSE RefPass(req, i + 1, Append(acc, <<req[i], RefVal(req[i])>>))

Ref == RefPass(keys, 1, <<>>)

\* the keys reachable from k along one or more dependency edges
RECURSIVE Closure(_, _)
Closure(S, n) ==
    IF n = 0 THEN S ELSE Closure(S \cup UNION {DepsOf(k) : k \in S}, n - 1)
ReachableFrom(k) == Closure(DepsOf(k), NumKeys)
OnCycle(k) == k \in ReachableFrom(k)

\* the keys of a sequence of pairs
KeysOf(o) == [i \in DOMAIN o |-> o[i][1]]
\* the elements of a sequence
Range1(s) == {s[i] : i \in DOMAIN s}
\* the requested keys pass p has looked up, in order
ReqReads(p) ==
    LET top(r) == r.req
        s == SelectSeq(reads[p], top)
    IN [i \in DOMAIN s |-> s[i].key]
Done(p) == pc[p] = "done"
Failed(p) == Done(p) /\ status[p].kind \in {"missing", "cycle"}

(***************************************************************************)
(* C1.  Within one pass the function of a formula key is invoked at most   *)
(* once: no key occurs twice in the trace of invocations of a pass,        *)
(* however many formulas depend on it and however often it is requested.   *)
(***************************************************************************)
C1_AtMostOnce ==
    \A p \in Passes : \A i, j \in DOMAIN trace[p] :
        i # j => trace[p][i] # trace[p][j]

\* a finished pass whose request names one formula twice and where another
\* invoked formula is a dependency of two invoked formulas
C1_Witness ==
    \E p \in Passes :
        /\ Done(p) /\ status[p] = NoErr /\ ~brk[p]
        /\ Len(keys) = 2 /\ keys[1] = keys[2] /\ IsFormula(keys[1])
        /\ \E k \in Range1(trace[p]) :
              Cardinality({f \in Range1(trace[p]) : k \in DepsOf(f)}) >= 2

(***************************************************************************)
(* C2.  When every key reachable from the requested keys is present and    *)
(* on no cycle, each yielded pair (k, v) has v equal to the reference      *)
(* value of k: the stored value, or the formula's function applied to the  *)
(* reference values of its dependencies in the listed order.               *)
(***************************************************************************)
C2_ValuesCorrect ==
    \A p \in Passes :
        Ref.err = NoErr =>
            \A i \in DOMAIN out[p] : out[p][i][2] = RefVal(out[p][i][1])

\* a yielded formula with two dependencies of different values, one of them
\* a formula itself
C2_Witness ==
    \E p \in Passes : \E i \in DOMAIN out[p] :
        LET k == out[p][i][1] IN
        /\ Ref.err = NoErr
        /\ IsFormula(k) /\ Len(env[k].args) = 2
        /\ RefVal(env[k].args[1]) # RefVal(env[k].args[2])
        /\ \E d \in DepsOf(k) : IsFormula(d) /\ DepsOf(d) # {}

(***************************************************************************)
(* C3.  A pass that ends without an error and was consumed to the end has  *)
(* yielded exactly the requested keys: same length, same order, a repeated *)
(* key once per occurrence.                                                *)
(***************************************************************************)
C3_OrderPreserved ==
    \A p \in Passes :
        (Done(p) /\ ~brk[p] /\ status[p] = NoErr) => KeysOf(out[p]) = keys

\* the first requested formula depends on the second, so the functions ran in
\* the order opposite to the request
C3_Witness ==
    \E p \in Passes :
        /\ Done(p) /\ ~brk[p] /\ status[p] = NoErr
        /\ Len(keys) = 2 /\ keys[1] # keys[2]
        /\ trace[p] = <<keys[2], keys[1]>>
        /\ KeysOf(out[p]) = keys

(***************************************************************************)
(* C4.  When a pass fails while resolving the requested key at position i, *)
(* it has yielded exactly the pairs of the requested keys before i, each   *)
(* with its reference value, nothing for position i or later, and it has   *)
(* looked up no requested key after position i.                            *)
(***************************************************************************)
C4_FailurePrefix ==
    \A p \in Passes :
        Failed(p) =>
            LET i == idx[p] IN
            /\ i >= 1
            /\ RefErr(keys[i]) = status[p]
            /\ Len(out[p]) = i - 1
            /\ \A j \in 1..(i - 1) :
                  /\ RefErr(keys[j]) = NoErr
                  /\ out[p][j] = <<keys[j], RefVal(keys[j])>>
            /\ ReqReads(p) = SubSeq(keys, 1, i)

\* a pass that yielded the pair of a formula and then failed at the second key
C4_Witness ==
    \E p \in Passes :
        /\ Failed(p) /\ idx[p] = 2
        /\ Len(out[p]) = 1 /\ IsFormula(keys[1])

CyclePos ==
    LET S == {i \in DOMAIN keys :
                 /\ IsFormula(keys[i]) /\ OnCycle(keys[i])
                 /\ \A j \in 1..(i - 1) : RefErr(keys[j]) = NoErr}
    IN IF S = {} THEN 0 ELSE CHOOSE i \in S : \A j \in S : i <= j

C6_CycleAlwaysReported ==
    \A p \in Passes :
        (Done(p) /\ ~brk[p] /\ CyclePos > 0) => status[p].kind = "cycle"

(***************************************************************************)
(* C6, amended.  If the formula under a requested key depends on itself    *)
(* directly or transitively, the pass (consumed until it reaches that key) *)
(* ends with an error, yields no pair for that key and invokes the         *)
(* function of no formula that lies on a cycle.  The error is the first    *)
(* failure of the left-to-right depth-first walk: a cycle error naming a   *)
(* key that lies on a cycle and is on the evaluation stack when its push   *)
(* is refused, or, when the walk meets an absent key first, the            *)
(* missing-key error naming that key.                                      *)
(***************************************************************************)
C6_CycleOrMissing ==
    \A p \in Passes :
        /\ \A i \in DOMAIN trace[p] : ~OnCycle(trace[p][i])
        /\ (Done(p) /\ ~brk[p] /\ CyclePos > 0) =>
              /\ idx[p] = CyclePos
              /\ Len(out[p]) = CyclePos - 1
              /\ status[p] = Ref.err
              /\ status[p].kind \in {"cycle", "missing"}
              /\ status[p].kind = "cycle" =>
                    /\ OnCycle(status[p].key)
                    /\ status[p].key \in calc[p].active
                    /\ \E i \in DOMAIN calc[p].stack :
                          calc[p].stack[i].key = status[p].key
              /\ status[p].kind = "missing" => ~Present(status[p].key)

\* a cycle through two keys: the requested key is re-entered from the formula
\* it depends on, after a pair has been yielded for an earlier key
C6_Witness ==
    \E p \in Passes :
        /\ Done(p) /\ ~brk[p] /\ CyclePos = 2
        /\ status[p] = Cycle(keys[2])
        /\ Len(calc[p].stack) = 2
        /\ Len(out[p]) = 1

(***************************************************************************)
(* C7.  Pad.Err is reset to nil when a pass starts; during a pass it is    *)
(* assigned a failure at most once, by the step that ends the pass, and a  *)
(* pass that has ended does nothing more; Err keeps its value until the    *)
(* next pass starts; after a pass of a sequential run Err is the failure   *)
(* the pass stopped on, and nil when the pass completed or was abandoned.  *)
(***************************************************************************)
\* no pass later than p has started
LastRun(p) == \A q \in (p + 1)..MaxPasses : pc[q] = "new"

C7_ErrAfterPass ==
    \A p \in Passes :
        (Done(p) /\ LastRun(p)) =>
            /\ Err = status[p]
            /\ Err = IF brk[p] THEN NoErr ELSE Ref.err

C7_ErrStep ==
    /\ \A p \in Passes :
          /\ (pc[p] = "new" /\ pc'[p] # "new") => Err' = NoErr
          /\ Done(p) =>
                /\ pc'[p] = "done" /\ idx'[p] = idx[p] /\ calc'[p] = calc[p]
                /\ out'[p] = out[p] /\ trace'[p] = trace[p]
                /\ reads'[p] = reads[p] /\ status'[p] = status[p]
    /\ Err' # Err =>
          \/ Err' = NoErr /\ \E p \in Passes : pc[p] = "new" /\ pc'[p] # "new"
          \/ /\ Err = NoErr
             /\ \E p \in Passes : pc[p] \in {"range", "eval"} /\ pc'[p] = "done"

\* C7: the value of Err after a pass, and the steps that may change Err
C7_ErrLifecycle == [](C7_ErrAfterPass) /\ [][C7_ErrStep]_vars

\* the first pass failed, the second one was started, which cleared Err, and
\* was abandoned by its consumer, which left Err nil
C7_Witness ==
    /\ Done(1) /\ status[1] # NoErr
    /\ Done(2) /\ brk[2]
    /\ Err = NoErr

(***************************************************************************)
(* C8.  Two passes run one after the other over the same store with the    *)
(* same request, both consumed to the end, yield the same pairs and end    *)
(* with the same status; a pass starts with an empty memo, so it invokes   *)
(* the same functions again, in the same order.                            *)
(***************************************************************************)
C8_SequentialIdentical ==
    /\ \A p \in Passes :
          (pc[p] = "range" /\ idx[p] = 0) => DOMAIN calc[p].values = {}
    /\ \A p, q \in Passes :
          (Done(p) /\ Done(q) /\ ~brk[p] /\ ~brk[q]) =>
              /\ out[p] = out[q]
              /\ status[p] = status[q]
              /\ trace[p] = trace[q]

\* both passes ran to the end and each invoked two functions
C8_Witness ==
    /\ Done(1) /\ Done(2) /\ ~brk[1] /\ ~brk[2]
    /\ Len(trace[2]) >= 2
    /\ Len(out[2]) = 2

(***************************************************************************)
(* C9.  Once the consumer has stopped pulling, the pass looks up nothing   *)
(* more, invokes no function, pulls no key, yields nothing and sets no     *)
(* error; a fresh pass over the same store afterwards, consumed to the     *)
(* end, yields the reference pairs and status of the request.              *)
(***************************************************************************)
C9_FreshAfterBreak ==
    \A p, q \in Passes :
        /\ brk[p] => (Done(p) /\ status[p] = NoErr)
        /\ (p < q /\ brk[p] /\ Done(q) /\ ~brk[q]) =>
              /\ out[q] = Ref.out
              /\ status[q] = Ref.err

C9_BreakStep ==
    \A p \in Passes :
        /\ (~brk[p] /\ brk'[p]) =>
              /\ Err' = Err /\ reads'[p] = reads[p] /\ trace'[p] = trace[p]
              /\ idx'[p] = idx[p] /\ out'[p] = out[p]
        /\ brk[p] =>
              /\ reads'[p] = reads[p] /\ trace'[p] = trace[p]
              /\ idx'[p] = idx[p] /\ out'[p] = out[p]
              /\ status'[p] = status[p] /\ calc'[p] = calc[p]
              /\ (Err' # Err => \E q \in Passes : q # p /\ pc'[q] # pc[q])

\* C9: an abandoned pass does nothing more, and a fresh pass is unaffected
C9_EarlyStop == [](C9_FreshAfterBreak) /\ [][C9_BreakStep]_vars

\* the first pass was abandoned after its first pair, with a key left to
\* pull; the second ran to the end and invoked a function again
C9_Witness ==
    /\ brk[1] /\ Len(out[1]) = 1 /\ Len(keys) = 2
    /\ Done(2) /\ ~brk[2]
    /\ Len(out[2]) = 2
    /\ trace[1] # <<>> /\ Len(trace[2]) > Len(trace[1])

(***************************************************************************)
(* C10.  No step of a pass changes the store: the set of keys and the cell *)
(* under each key stay as they were, whether the pass completes, fails or  *)
(* is abandoned, and no computed result is written into the store.         *)
(***************************************************************************)
C10_StoreUnchanged == [][(passVars' # passVars \/ Err' # Err) => env' = env]_vars

\* passes that failed and passes that were abandoned after invoking a
\* function: the invoked keys still hold their formulas
C10_Witness ==
    /\ Done(1) /\ brk[1] /\ trace[1] # <<>>
    /\ Done(2) /\ status[2] # NoErr
    /\ \A i \in DOMAIN trace[1] : IsFormula(trace[1][i])


(***************************************************************************)
(* A store that grows while a pass is running: between two pulls the       *)
(* consumer's loop body calls SetVal or SetFunc with a key that is absent. *)
(***************************************************************************)
\* some pass is suspended in its yield: the consumer's loop body is running
InLoopBody == \E p \in Passes : pc[p] = "yield"

\* Pad.SetVal called from the loop body with a key that is not in the store
InsertVal(key, val) ==
    /\ made
    /\ InLoopBody
    /\ key \notin DOMAIN env
    /\ env' = Put(env, key, ValCell(val))
    /\ added' = added \cup {key}
    /\ UNCHANGED <<own, Err, keys, made, passVars>>

\* Pad.SetFunc called from the loop body with a key that is not in the store
InsertFunc(key, args) ==
    /\ made
    /\ InLoopBody
    /\ key \notin DOMAIN env
    /\ env' = Put(env, key, FormCell(args))
    /\ added' = added \cup {key}
    /\ UNCHANGED <<own, Err, keys, made, passVars>>

\* the iterator is run once, and its consumer may insert cells
NextInsert ==
    \/ \E k \in Keys, v \in Vals : SetVal(k, v)
    \/ \E k \in Keys, a \in SeqUpTo(Keys, MaxDeps) : SetFunc(k, a)
    \/ \E k \in Keys : Delete(k)
    \/ \E r \in SeqUpTo(Keys, MaxReq) : Calc(r)
    \/ Start(1)
    \/ Range(1)
    \/ EvalArg(1)
    \/ EvalCall(1)
    \/ Resume(1)
    \/ Break(1)
    \/ \E k \in Keys, v \in Vals : InsertVal(k, v)
    \/ \E k \in Keys, a \in SeqUpTo(Keys, MaxDeps) : InsertFunc(k, a)

SpecInsert == Init /\ [][NextInsert]_vars

\* the pairs of o2 begin with the pairs of o1
Extends(o2, o1) == Len(o2) >= Len(o1) /\ SubSeq(o2, 1, Len(o1)) = o1

\* the result of a pass is the one of the store as it is now, insertions included
C11_SeesStore ==
    /\ \A i \in DOMAIN out[1] : out[1][i] = <<keys[i], RefVal(keys[i])>>
    /\ Done(1) /\ ~brk[1] => out[1] = Ref.out /\ status[1] = Ref.err
    /\ Done(1) /\ status[1].kind = "missing" => status[1].key \notin DOMAIN env

\* C11: a cell inserted under an absent key between two pulls of a running
\* pass is seen by that pass: every pair it yields, and its final status,
\* are those of the store with the insertions (so an inserted key, requested
\* or depended upon later, is resolved and never reported missing), and an
\* insertion leaves the pairs already yielded as they are.
C11_InsertVisible ==
    /\ [](C11_SeesStore)
    /\ [][\A p \in Passes : Extends(out'[p], out[p])]_vars

\* key 2 and key 3 were inserted after the first pair; key 2 was requested
\* next and yielded, key 3 was read as a dependency of an invoked formula
C11_Witness ==
    /\ Done(1) /\ ~brk[1] /\ status[1] = NoErr
    /\ Len(out[1]) = 2
    /\ added = {2, 3}
    /\ out[1][2][1] = 2
    /\ IsFormula(2) /\ env[2].args = <<3, 1>>
    /\ trace[1] = <<2>>


(***************************************************************************)
(* Two passes over one pad whose steps interleave: each pass runs an       *)
(* iterator of its own and, for instance, one is started and consumed      *)
(* inside the loop body of the other.  No cell is changed meanwhile.       *)
(***************************************************************************)
\* Pad.Calc / Pad.CalcSeq called once more: pass p gets an iterator of its own
CalcOwn(p, req) ==
    /\ made
    /\ pc[p] = "new"
    /\ ~own[p].set
    /\ own' = [own EXCEPT ![p] = [set |-> TRUE, keys |-> req]]
    /\ UNCHANGED <<added, env, Err, keys, made, passVars>>

\* The pad is for one goroutine (Err and env are plain fields), so a pass
\* gets control where the others are suspended: before their start, in a
\* yield, or after their return.
Suspended(q) == pc[q] \in {"new", "yield", "done"}
HasControl(p) == \A q \in Passes \ {p} : Suspended(q)

TurnStart(p) == HasControl(p) /\ Start(p)
TurnRange(p) == HasControl(p) /\ Range(p)
TurnEvalArg(p) == HasControl(p) /\ EvalArg(p)
TurnEvalCall(p) == HasControl(p) /\ EvalCall(p)
TurnResume(p) == HasControl(p) /\ Resume(p)
TurnBreak(p) == HasControl(p) /\ Break(p)

NextInterleaved ==
    \/ \E k \in Keys, v \in Vals : SetVal(k, v)
    \/ \E k \in Keys, a \in SeqUpTo(Keys, MaxDepsInterleaved) : SetFunc(k, a)
    \/ \E k \in Keys : Delete(k)
    \/ \E r \in SeqUpTo(Keys, MaxReq) : Calc(r)
    \/ \E r \in SeqUpTo(Keys, MaxOwn) : CalcOwn(MaxPasses, r)
    \/ \E p \in Passes : TurnStart(p)
    \/ \E p \in Passes : TurnRange(p)
    \/ \E p \in Passes : TurnEvalArg(p)
    \/ \E p \in Passes : TurnEvalCall(p)
    \/ \E p \in Passes : TurnResume(p)
    \/ \E p \in Passes : TurnBreak(p)

SpecInterleaved == Init /\ [][NextInterleaved]_vars

\* what pass p alone owns
PassState(p) == <<pc[p], idx[p], calc[p], value[p], out[p], trace[p], reads[p], brk[p]>>

\* the pairs of a pass over req that runs alone and is consumed to its end
Alone(req) == RefPass(req, 1, <<>>).out

NoRepeat(t) == \A i, j \in DOMAIN t : t[i] = t[j] => i = j

C12_AsAlone ==
    \A p \in Passes :
        /\ Extends(Alone(Request(p)), out[p])
        /\ Done(p) /\ ~brk[p] => out[p] = Alone(Request(p))
        /\ NoRepeat(trace[p])

C12_OwnState ==
    \A p, q \in Passes :
        p # q /\ PassState(p)' # PassState(p) => PassState(q)' = PassState(q)

\* C12: when two passes over one pad interleave and no cell is changed, each
\* pass yields the pairs it yields when it runs alone, invokes the function
\* of each formula at most once, and no step of one pass changes the memo,
\* the stack, the active set or anything else that belongs to the other.
C12_Interleaved == [](C12_AsAlone) /\ [][C12_OwnState]_vars

\* pass 2, with an iterator of its own, ran to its end inside a loop body
\* of pass 1; both have invoked the formula of the same key
C12_Witness ==
    /\ pc[1] = "yield" /\ Done(2) /\ ~brk[2]
    /\ own[2].set /\ own[2].keys # keys
    /\ trace[2] # <<>> /\ calc[1].values # <<>>
    /\ \E i \in DOMAIN trace[1] : \E j \in DOMAIN trace[2] : trace[1][i] = trace[2][j]
    /\ idx[1] < Len(keys)


(***************************************************************************)
(* One pass whose consumer keeps pulling: the iterator function runs on    *)
(* whenever it can take a step, and whenever it is suspended in a yield    *)
(* the consumer asks for the next pair.                                    *)
(***************************************************************************)
NextPulling ==
    \/ \E k \in Keys, v \in Vals : SetVal(k, v)
    \/ \E k \in Keys, a \in SeqUpTo(Keys, MaxDeps) : SetFunc(k, a)
    \/ \E k \in Keys : Delete(k)
    \/ \E r \in SeqUpTo(Keys, MaxReq) : Calc(r)
    \/ Start(1)
    \/ Range(1)
    \/ EvalArg(1)
    \/ EvalCall(1)
    \/ Resume(1)

SpecPulling ==
    /\ Init /\ [][NextPulling]_vars
    /\ WF_vars(Range(1)) /\ WF_vars(EvalArg(1)) /\ WF_vars(EvalCall(1))
    /\ WF_vars(Resume(1))

FormulaKeys == {k \in DOMAIN env : env[k].type = "form"}

C13_DepthBounded ==
    \A p \in Passes : Len(calc[p].stack) <= Cardinality(FormulaKeys)

\* C13: a pass whose consumer keeps pulling ends, whatever the store holds
\* (cycles and missing keys included): a started pass reaches its return,
\* every evaluation of a requested formula key leaves eval with a yielded
\* value or with an error, and the stack never holds more frames than the
\* store has formula keys.
C13_Terminates ==
    /\ [](C13_DepthBounded)
    /\ (pc[1] = "range") ~> Done(1)
    /\ (pc[1] = "eval") ~> (pc[1] \in {"yield", "done"})

\* a pass over a store with a cycle has ended, and before that its stack
\* held as many frames as the store has formula keys
C13_Witness ==
    /\ Done(1) /\ status[1].kind = "cycle"
    /\ Len(calc[1].stack) = Cardinality(FormulaKeys)
    /\ Cardinality(FormulaKeys) = NumKeys

\* what a pass over req, consumed to its end, ends with: no error, or the
\* error of its first failing key
Outcome(req) == RefPass(req, 1, <<>>).err

\* C14: when two passes over one pad interleave and no cell is changed, the
\* status read from the pad when a pass has ended (completed or failed) is
\* the outcome of that pass, whatever the other pass did to the error slot.
C14_OwnStatus ==
    \A p \in Passes : Done(p) /\ ~brk[p] => status[p] = Outcome(Request(p))


(***************************************************************************)
(* The order of invocation, by recursion on the formulas: a depth-first    *)
(* walk of the dependencies, left to right, that lists a formula key when  *)
(* all its dependencies are walked and never lists a key twice.            *)
(***************************************************************************)
RECURSIVE Walk(_, _, _)
RECURSIVE WalkArgs(_, _, _, _)
Walk(k, seen, path) ==
    IF ~Present(k) THEN [order |-> seen, ok |-> FALSE]
    ELSE IF IsValue(k) THEN [order |-> seen, ok |-> TRUE]
    ELSE IF k \in Range1(seen) THEN [order |-> seen, ok |-> TRUE]
    ELSE IF k \in path THEN [order |-> seen, ok |-> FALSE]
    ELSE LET a == WalkArgs(env[k].args, 1, seen, path \cup {k}) IN
         IF a.ok THEN [order |-> Append(a.order, k), ok |-> TRUE] ELSE a

WalkArgs(args, i, seen, path) ==
    IF i > Len(args) THEN [order |-> seen, ok |-> TRUE]
    ELSE LET r == Walk(args[i], seen, path) IN
         IF r.ok THEN WalkArgs(args, i + 1, r.order, path) ELSE r

\* the invocations of a pass over the first n keys of req, up to its first failure
RECURSIVE WalkReq(_, _, _, _)
WalkReq(req, n, i, seen) ==
    IF i > n THEN seen
    ELSE LET r == Walk(req[i], seen, {}) IN
         IF r.ok THEN WalkReq(req, n, i + 1, r.order) ELSE r.order

PostOrder(p) == WalkReq(Request(p), idx[p], 1, <<>>)

\* the store of TestSimple in small: 1 = f(), 2 = f(), 3 = f(1, 2)
SmallTestStore ==
    /\ DOMAIN env = {1, 2, 3}
    /\ env[1] = FormCell(<<>>) /\ env[2] = FormCell(<<>>) /\ env[3] = FormCell(<<1, 2>>)

\* C15: within a pass the functions are invoked in left-to-right depth-first
\* post-order: the invocations made so far are the beginning of the walk of
\* the keys pulled so far, and all of it when the pass is between two keys;
\* a function is invoked after the functions of all its formula
\* dependencies; and on the store 1 = f(), 2 = f(), 3 = f(1, 2) both the
\* request <<1, 3>> and the request <<3, 1>> invoke in the order 1, 2, 3.
C15_PostOrder ==
    \A p \in Passes :
        /\ Extends(PostOrder(p), trace[p])
        /\ pc[p] \in {"range", "yield", "done"} => trace[p] = PostOrder(p)
        /\ \A i \in DOMAIN trace[p] : \A d \in DepsOf(trace[p][i]) :
              IsFormula(d) => \E j \in 1..(i - 1) : trace[p][j] = d
        /\ SmallTestStore /\ Done(p) /\ ~brk[p] /\ keys \in {<<1, 3>>, <<3, 1>>}
              => trace[p] = <<1, 2, 3>>

\* on the small test store the request <<3, 1>> has been consumed: key 3 was
\* asked first and its function was invoked last
C15_Witness ==
    /\ SmallTestStore /\ keys = <<3, 1>>
    /\ Done(1) /\ ~brk[1] /\ Len(out[1]) = 2
    /\ trace[1] = <<1, 2, 3>>

\* the arguments of frame f are the values of its first dependencies, in order
ArgsResolved(f) ==
    /\ Len(f.args) <= Len(f.form)
    /\ \A i \in DOMAIN f.args : f.args[i] = RefVal(f.form[i])

C16_Frames ==
    \A p \in Passes : \A n \in DOMAIN calc[p].stack :
        LET f == calc[p].stack[n] IN
        /\ ArgsResolved(f)
        \* a suspended frame waits for the dependency at index len(args)
        /\ n < Len(calc[p].stack) =>
              /\ Len(f.args) < Len(f.form)
              /\ calc[p].stack[n + 1].key = f.form[Len(f.args) + 1]

C16_Step ==
    \A p \in Passes :
        \* the function is invoked: on all the arguments, one for each dependency
        /\ trace'[p] # trace[p] =>
              LET f == Top(calc[p]) IN
              /\ trace'[p] = Append(trace[p], f.key)
              /\ Len(f.args) = Len(f.form)
              /\ ArgsResolved(f)
              /\ value'[p] = fn(f.args)
        \* a frame that stays on the stack keeps its arguments or gets the next one
        /\ \A n \in DOMAIN calc[p].stack \cap DOMAIN calc'[p].stack :
              LET f == calc[p].stack[n]
                  g == calc'[p].stack[n]
              IN  \/ g = f
                  \/ /\ n = Len(calc[p].stack)
                     /\ Len(f.args) < Len(f.form)
                     /\ g = [f EXCEPT !.args = Append(@, RefVal(f.form[Len(f.args) + 1]))]

\* C16: when a function is invoked its frame holds one argument for each
\* dependency key, the i-th being the value of the i-th dependency; a frame
\* never holds more arguments than dependencies; a frame suspended by a push
\* waits for the dependency at index len(args) and, while it stays on the
\* stack, its arguments only change by appending the value of that dependency.
C16_Arguments == [](C16_Frames) /\ [][C16_Step]_vars

\* a function of two dependencies is about to be invoked on a frame that was
\* suspended for its first dependency, a formula, and resumed
C16_Witness ==
    /\ pc[1] = "eval" /\ Len(calc[1].stack) = 1
    /\ Len(Top(calc[1]).form) = 2 /\ Len(Top(calc[1]).args) = 2
    /\ IsFormula(Top(calc[1]).form[1]) /\ IsValue(Top(calc[1]).form[2])
    /\ trace[1] = <<Top(calc[1]).form[1]>>

\* how many times key k is in sequence t
Count(t, k) == Cardinality({i \in DOMAIN t : t[i] = k})

\* the dependency list a names some key more than once
Repeats(a) == \E i, j \in DOMAIN a : i # j /\ a[i] = a[j]

\* the values of the keys of a, position by position
RefVals(a) == [j \in DOMAIN a |-> RefVal(a[j])]

\* C17: when a formula lists a dependency key more than once, the dependency
\* is evaluated once (its function is invoked once, and not at all for a
\* plain value), the function of the formula receives one argument for each
\* listed occurrence, each the value of the dependency, and the repetition
\* is no cycle: a cycle error names a key that depends on itself, and the
\* formula is yielded whenever its dependencies can be resolved.
C17_RepeatedDep ==
    \A p \in Passes :
        /\ \A n \in DOMAIN calc[p].stack :
              LET f == calc[p].stack[n] IN
              Repeats(f.form) =>
                  \A j \in DOMAIN f.form : Count(trace[p], f.form[j]) <= 1
        /\ \A i \in DOMAIN trace[p] :
              LET k == trace[p][i]
                  a == env[k].args
              IN  Repeats(a) =>
                      /\ HasValue(calc[p], k)
                      /\ calc[p].values[k] = fn(RefVals(a))
                      /\ \A j \in DOMAIN a :
                            Count(trace[p], a[j]) = IF IsFormula(a[j]) THEN 1 ELSE 0
        /\ Failed(p) /\ status[p].kind = "cycle" => OnCycle(status[p].key)
        /\ \A i \in 1..idx[p] :
              LET k == Request(p)[i] IN
              (/\ IsFormula(k) /\ Repeats(env[k].args)
               /\ (\A j \in DOMAIN env[k].args : RefErr(env[k].args[j]) = NoErr))
              => (\/ i = idx[p] /\ pc[p] = "eval"
                  \/ i <= Len(out[p]) /\ out[p][i] = <<k, fn(RefVals(env[k].args))>>)

\* key 3 = fn(2, 2) with key 2 a formula was requested and yielded: the
\* function of key 2 was invoked once and its value was used twice
C17_Witness ==
    /\ IsFormula(3) /\ env[3].args = <<2, 2>> /\ IsFormula(2)
    /\ keys = <<3>> /\ pc[1] = "yield"
    /\ trace[1] = <<2, 3>>
    /\ out[1] = <<<<3, fn(<<RefVal(2), RefVal(2)>>)>>>>

\* the keys that the first n requested keys of pass p need: themselves and
\* all they depend on
Needed(p, n) ==
    UNION {{Request(p)[i]} \cup ReachableFrom(Request(p)[i]) : i \in 1..n}

C18_Lazy ==
    \A p \in Passes :
        \* the requested keys looked up are those pulled, one at most ahead
        \* of the pairs yielded
        /\ ReqReads(p) = SubSeq(Request(p), 1, idx[p])
        /\ Len(out[p]) <= idx[p] /\ idx[p] <= Len(out[p]) + 1
        \* while the consumer holds pair i nothing after i has been touched
        /\ pc[p] = "yield" => idx[p] = Len(out[p])
        \* the key at position i is looked up after the consumer's i-th request
        /\ idx[p] <= pulls[p] /\ Len(out[p]) <= pulls[p]
        /\ Range1(trace[p]) \subseteq Needed(p, idx[p])
        /\ \A i \in DOMAIN reads[p] : reads[p][i].key \in Needed(p, idx[p])

C18_Step ==
    \A p \in Passes :
        \* a pair is produced: the pass is suspended in its yield
        /\ out'[p] # out[p] => pc'[p] = "yield"
        \* suspended in a yield, the pass does nothing until the consumer
        \* asks for the next pair or leaves
        /\ pc[p] = "yield" =>
              /\ <<idx[p], calc[p], out[p], trace[p], reads[p]>>' =
                     <<idx[p], calc[p], out[p], trace[p], reads[p]>>
              /\ pc'[p] \in {"yield", "range", "done"}
        \* the next requested key is looked up when all pairs before it are yielded
        /\ idx'[p] # idx[p] =>
              /\ pc[p] = "range" /\ idx'[p] = idx[p] + 1
              /\ idx[p] = Len(out[p])

\* C18: evaluation is driven by the consumer's pulls: until the pair of the
\* requested key at position i is yielded and the consumer has asked for the
\* next one, no requested key after position i is looked up, and only keys
\* that the requested keys up to position i need are read or invoked.
C18_PullDriven == [](C18_Lazy) /\ [][C18_Step]_vars

\* the consumer holds the first pair; the second requested key is a formula
\* that nothing so far needed, and it has been neither read nor invoked
C18_Witness ==
    /\ pc[1] = "yield" /\ idx[1] = 1 /\ Len(keys) = 2
    /\ IsFormula(keys[2]) /\ keys[2] \notin Needed(1, 1)
    /\ trace[1] # <<>>
    /\ keys[2] \notin Range1(trace[1])
    /\ \A i \in DOMAIN reads[1] : reads[1][i].key # keys[2]

\* the keys of the frames on the stack of pass p
StackKeys(p) == {calc[p].stack[n].key : n \in DOMAIN calc[p].stack}

Idle(c) == c.stack = <<>> /\ c.active = {}

C19_ActiveIsStack ==
    \A p \in Passes :
        /\ calc[p].active = StackKeys(p)
        /\ \A m, n \in DOMAIN calc[p].stack :
              calc[p].stack[m].key = calc[p].stack[n].key => m = n
        \* between two evaluations, and in particular inside a yield
        /\ pc[p] \in {"range", "yield"} => Idle(calc[p])

C19_Step ==
    \A p \in Passes :
        \* a pair is yielded
        /\ out'[p] # out[p] => Idle(calc'[p])
        \* an evaluation returns without an error
        /\ pc[p] = "eval" /\ pc'[p] # "eval" /\ Err' = NoErr => Idle(calc'[p])

\* C19: in every state of a pass the active set is the set of the keys of the
\* frames on the stack, and no two frames have the same key; whenever a pair
\* is yielded, and whenever an evaluation of a requested key returns
\* successfully, the stack and the active set are empty.
C19_StackAndActive == [](C19_ActiveIsStack) /\ [][C19_Step]_vars

\* an evaluation that had two frames on the stack has returned, its pair is
\* yielded and the calculator is idle
C19_Witness ==
    /\ pc[1] = "yield" /\ idx[1] = 1 /\ Len(out[1]) = 1
    /\ Len(trace[1]) >= 2
    /\ Idle(calc[1]) /\ calc[1].values # <<>>

\* the keys that have an entry in calc.values of pass p
Memo(p) == DOMAIN calc[p].values

C20_MemoContent ==
    \A p \in Passes :
        /\ \A k \in Memo(p) :
              /\ IsFormula(k)
              /\ Count(trace[p], k) = 1
              /\ calc[p].values[k] = RefVal(k)
        /\ Memo(p) = Range1(trace[p])
        /\ \A k \in Keys : IsValue(k) => k \notin Memo(p)
        /\ Memo(p) \cap StackKeys(p) = {}

C20_Step ==
    \A p \in Passes :
        \* an invocation: what the function returns is what the memo gets
        /\ trace'[p] # trace[p] =>
              LET f == Top(calc[p]) IN
              /\ f.key \notin Memo(p)
              /\ Memo(p)' = Memo(p) \cup {f.key}
              /\ calc'[p].values[f.key] = fn(f.args)
        \* no other step of a running pass adds an entry, and none changes one
        /\ trace'[p] = trace[p] /\ pc[p] # "new" => Memo(p)' = Memo(p)
        /\ pc[p] # "new" =>
              \A k \in Memo(p) : calc'[p].values[k] = calc[p].values[k]

\* C20: in every state of a pass every key of the memo is the key of a
\* formula, its entry is the value that the single invocation of that
\* formula's function in this pass returned, a key that holds a plain value
\* has no entry, and a key on the evaluation stack has no entry.
C20_Memo == [](C20_MemoContent) /\ [][C20_Step]_vars

\* during an evaluation: the formula on the stack has no entry, its formula
\* dependency, already invoked, has one, and its plain-value dependency,
\* already read, has none
C20_Witness ==
    /\ pc[1] = "eval" /\ Len(calc[1].stack) = 1
    /\ LET f == Top(calc[1]) IN
       /\ Len(f.form) = 2 /\ Len(f.args) = 2
       /\ IsFormula(f.form[1]) /\ IsValue(f.form[2])
       /\ Memo(1) = {f.form[1]}
       /\ f.key \notin Memo(1)

=============================================================================
